---- MODULE Spec2Model ----
(***************************************************************************)
(* Face-authentication attendance system: the attendance ledger (db.py),   *)
(* the embedding gallery and matcher (face_utils.py) and the Mark          *)
(* Attendance page (app.py), as state machines.                            *)
(*                                                                         *)
(* Time.  The wall clock is the instant `now`, counted in ticks.           *)
(* date.today().strftime("%Y-%m-%d") keeps the calendar day of an instant  *)
(* (DateStr) and datetime.now().strftime("%H:%M:%S") keeps its time of day *)
(* (TimeStr); both orders are those of the formatted strings.              *)
(*                                                                         *)
(* Embeddings.  An embedding is a vector of EmbDim = 1 component, in       *)
(* tenths; the Euclidean norm of a difference of such vectors is the       *)
(* absolute value, so distances and the tolerance are exact integers       *)
(* (tolerance 0.6 is 6).                                                   *)
(***************************************************************************)
EXTENDS Integers, Sequences, FiniteSets, TLC

VARIABLES
    now,          \* the wall clock (an instant, in ticks)
    ledger,       \* table attendance: rows in id order (id = index)
    op,           \* the operation that ran last, with its inputs
    ret,          \* what it returned
    pc,           \* per session: where its mark_attendance call stands
    local,        \* per session: the locals of its mark_attendance call
    known_faces,  \* engine.known_faces: a dict, entries in insertion order
    tolerance,    \* engine.tolerance, in tenths
    calls,        \* the calls the last page run made, in order
    disk,         \* the file data/encodings.pkl
    frame_history,   \* detector.frame_history: grayscale frames, oldest first
    ear_history,     \* detector.ear_history: EAR samples, oldest first
    blink_detected,  \* detector.blink_detected
    session_state,   \* st.session_state: the keys of the Register page
    run,             \* where the run of the Register page stands
    peer_known_faces \* engine.known_faces of the engine of a second session

\* the state of the session's LivenessDetector
detector == <<frame_history, ear_history, blink_detected>>

\* the state of the Register page
register_page == <<session_state, run>>

vars == <<now, ledger, op, ret, pc, local, known_faces, tolerance, calls,
          disk, detector, register_page, peer_known_faces>>

(***************************************************************************)
(* Bounds of the model                                                     *)
(***************************************************************************)
MaxClock == 3
TicksPerDay == 2
\* most encodings kept per user
MaxEnc == 2

Users == {"alice", "bob"}
Sessions == {"s1", "s2"}

(***************************************************************************)
(* Values                                                                  *)
(***************************************************************************)
\* SQL NULL / Python None in an integer-valued place (punch_out, timestamp)
NULL == -1
\* Python None in a string-valued place
NONE == "None"

Max(S) == CHOOSE x \in S : \A y \in S : y <= x

\* date.today().strftime("%Y-%m-%d")
DateStr(t) == t \div TicksPerDay
\* datetime.now().strftime("%H:%M:%S")
TimeStr(t) == t % TicksPerDay

Faults == {"none", "lookup", "write", "commit"}

\* FaceRecognitionEngine(tolerance=0.6)
DefaultTolerance == 6

\* The file data/encodings.pkl: absent, the pickle of a gallery, or a file
\* that pickle.load cannot read.
NoFile == [state |-> "absent", known_faces |-> <<>>]
Pickled(kf) == [state |-> "valid", known_faces |-> kf]
Truncated == [state |-> "corrupt", known_faces |-> <<>>]

\* a frame of the camera as the detector sees it (see LivenessDetector
\* below); NoImage: no frame, None
NoImage == [gray |-> 0, ear |-> NULL]

\* A new Streamlit session: none of the keys of the Register page is set
\* (session_state.get gives False), and no run of the page is under way.
\* run.i counts the frames the liveness loop of this run has consumed,
\* run.message is what the loop of the last run reported, run.register_button
\* is the value of register_button in the run under way, and
\* run.register_enabled tells whether the last run drew the "Register Face"
\* button enabled (line 155: disabled = not frame_captured); run.user_name
\* is the name entered, in a run with that button pressed.
NewSession ==
    /\ session_state = [liveness_check_started |-> FALSE,
                        frame_captured |-> FALSE,
                        captured_frame |-> NoImage]
    /\ run = [at |-> "idle", i |-> 0, message |-> NONE,
              register_button |-> FALSE, register_enabled |-> FALSE,
              user_name |-> NONE]

\* LivenessDetector.__init__: empty histories, no blink seen
NewDetector ==
    /\ frame_history = <<>>
    /\ ear_history = <<>>
    /\ blink_detected = FALSE

(***************************************************************************)
(* db.py: AttendanceDB.mark_attendance                                     *)
(***************************************************************************)
\* `record`: a row (id, punch_out) of the SELECT, or None
NoRecord == [id |-> 0, punch_out |-> NULL]

\* SELECT id, punch_out FROM attendance WHERE name = ? AND date = ?
\* ORDER BY id DESC LIMIT 1; record = cursor.fetchone()
Lookup_AnyDate(led, name, today) ==
    LET ids == {i \in 1..Len(led) : led[i].name = name}
    IN  IF ids = {} THEN NoRecord
        ELSE [id |-> Max(ids), punch_out |-> led[Max(ids)].punch_out]

Lookup_AnyName(led, name, today) ==
    LET ids == {i \in 1..Len(led) : led[i].date = today}
    IN  IF ids = {} THEN NoRecord
        ELSE [id |-> Max(ids), punch_out |-> led[Max(ids)].punch_out]

Lookup(led, name, today) ==
    LET ids == {i \in 1..Len(led) : led[i].name = name /\ led[i].date = today}
    IN  IF ids = {} THEN NoRecord
        ELSE [id |-> Max(ids), punch_out |-> led[Max(ids)].punch_out]

\* INSERT INTO attendance (name, date, punch_in, punch_out) VALUES (?, ?, ?, NULL)
Insert_Closed(led, name, today, current_time) ==
    Append(led, [name |-> name, date |-> today,
                 punch_in |-> current_time, punch_out |-> current_time])

Insert(led, name, today, current_time) ==
    Append(led, [name |-> name, date |-> today,
                 punch_in |-> current_time, punch_out |-> NULL])

\* UPDATE attendance SET punch_out = ? WHERE id = ?
Update_ByName(led, id, current_time) ==
    [i \in 1..Len(led) |->
        IF led[i].name = led[id].name
        THEN [led[i] EXCEPT !.punch_out = current_time]
        ELSE led[i]]

Update_AllOpen(led, id, current_time) ==
    [i \in 1..Len(led) |->
        IF led[i].name = led[id].name /\ led[i].punch_out = NULL
        THEN [led[i] EXCEPT !.punch_out = current_time]
        ELSE led[i]]

Update(led, id, current_time) ==
    [led EXCEPT ![id].punch_out = current_time]

\* the three branches on `record` (lines 125-172): what is written ...
WriteStep_ShiftAfterOut(led, record, name, today, current_time) ==
    IF record.id = 0 \/ record.punch_out # NULL
    THEN Insert(led, name, today, current_time)
    ELSE Update(led, record.id, current_time)

WriteStep_AlwaysUpdate(led, record, name, today, current_time) ==
    IF record.id = 0 THEN Insert(led, name, today, current_time)
    ELSE Update(led, record.id, current_time)

WriteStep(led, record, name, today, current_time) ==
    IF record.id = 0 THEN Insert(led, name, today, current_time)
    ELSE IF record.punch_out = NULL THEN Update(led, record.id, current_time)
    ELSE led

\* ... and what is returned
Result(record, current_time) ==
    IF record.id = 0
    THEN [success |-> TRUE, action |-> "punch_in", timestamp |-> current_time]
    ELSE IF record.punch_out = NULL
    THEN [success |-> TRUE, action |-> "punch_out", timestamp |-> current_time]
    ELSE [success |-> FALSE, action |-> "none", timestamp |-> record.punch_out]

\* the except branch (lines 174-181)
ErrorResult == [success |-> FALSE, action |-> "none", timestamp |-> NULL]

\* One whole call: the committed table and the returned dict.  A failure of
\* the persistence layer at any statement raises before commit has made
\* anything durable.
MarkAttendance_Autocommit(led, name, today, current_time, fault) ==
    LET record == Lookup(led, name, today)
    IN  IF fault = "commit"
        THEN [ledger |-> WriteStep(led, record, name, today, current_time),
              ret    |-> ErrorResult]
        ELSE IF fault # "none"
        THEN [ledger |-> led, ret |-> ErrorResult]
        ELSE [ledger |-> WriteStep(led, record, name, today, current_time),
              ret    |-> Result(record, current_time)]

MarkAttendance(led, name, today, current_time, fault) ==
    LET record == Lookup(led, name, today)
    IN  IF fault # "none"
        THEN [ledger |-> led, ret |-> ErrorResult]
        ELSE [ledger |-> WriteStep(led, record, name, today, current_time),
              ret    |-> Result(record, current_time)]

NoOp == [fn |-> "none", name |-> NONE, fault |-> "none"]
NoRet == [success |-> FALSE, action |-> "none", timestamp |-> NULL]
NoLocal == [name |-> NONE, today |-> NULL, current_time |-> NULL, record |-> NoRecord]

Init ==
    /\ now = 0
    /\ ledger = <<>>
    /\ op = NoOp
    /\ ret = NoRet
    /\ pc = [s \in Sessions |-> "idle"]
    /\ local = [s \in Sessions |-> NoLocal]
    /\ known_faces = <<>>
    /\ tolerance = DefaultTolerance
    /\ calls = <<>>
    /\ disk = NoFile
    /\ NewDetector
    /\ NewSession
    /\ peer_known_faces = <<>>

\* the wall clock advances
Tick ==
    /\ now < MaxClock
    /\ now' = now + 1
    /\ op' = [NoOp EXCEPT !.fn = "tick"]
    /\ UNCHANGED <<ledger, ret, pc, local, known_faces, tolerance, calls, disk, detector,
                   register_page, peer_known_faces>>

\* mark_attendance(name), run to completion.  `today` is read at line 107
\* and `current_time` at line 108: the clock may advance in between.
MarkCall(name, faults) ==
    \E adv \in 0..1, fault \in faults :
        /\ now + adv <= MaxClock
        /\ LET r == MarkAttendance(ledger, name, DateStr(now),
                                   TimeStr(now + adv), fault)
           IN  /\ ledger' = r.ledger
               /\ ret' = r.ret
        /\ now' = now + adv
        /\ op' = [fn |-> "mark_attendance", name |-> name, fault |-> fault]
        /\ UNCHANGED <<pc, local, known_faces, tolerance, calls, disk, detector,
                   register_page, peer_known_faces>>

\* a call during which sqlite3 raises nothing
mark_attendance(name) == MarkCall(name, {"none"})

\* a call during which a statement, or the commit, raises
mark_attendance_failing(name) == MarkCall(name, Faults \ {"none"})

\* The ledger with a working database
Next ==
    \/ Tick
    \/ \E name \in Users : mark_attendance(name)

Spec == Init /\ [][Next]_vars

\* The ledger with a database that may fail
NextFault ==
    \/ Tick
    \/ \E name \in Users : mark_attendance(name)
    \/ \E name \in Users : mark_attendance_failing(name)

SpecFault == Init /\ [][NextFault]_vars

(***************************************************************************)
(* db.py: the monthly report.  A month is a run of DaysPerMonth days;      *)
(* month m (year and month counted together) has the days                  *)
(* m * DaysPerMonth .. (m + 1) * DaysPerMonth - 1.  Hours are fractions    *)
(* with denominator TicksPerDay: julianday() of a time of day t is         *)
(* t / TicksPerDay of a day.                                               *)
(***************************************************************************)
DaysPerMonth == 2
\* most rows of a ledger the report is asked about
MaxRows == 3

\* a column value of the DataFrame: a number, or NaN / None
NaN == [isna |-> TRUE, value |-> 0]
Number(x) == [isna |-> FALSE, value |-> x]

\* lines 228-234: start_date and end_date of the month, as dates
StartDate(month) == month * DaysPerMonth
EndDate(month) == (month + 1) * DaysPerMonth

\* lines 239-243: (julianday(punch_out) - julianday(punch_in)) * 24 when
\* punch_out is not NULL, else NULL; the numerator over TicksPerDay (the
\* times of day of the report are whole ticks, summed without rounding; the
\* rounding of julianday is in hours_worked below)
HoursWorked(row) ==
    IF row.punch_out # NULL
    THEN Number((row.punch_out - row.punch_in) * 24)
    ELSE NaN

\* get_monthly_attendance(year, month): the rows with start_date <= date <
\* end_date and their hours_worked (the order of the rows, date DESC and
\* punch_in, plays no part in what follows)
get_monthly_attendance(led, month) ==
    LET inMonth(row) == row.date >= StartDate(month) /\ row.date < EndDate(month)
        picked == SelectSeq(led, inMonth)
    IN  [i \in 1..Len(picked) |->
            [name |-> picked[i].name, date |-> picked[i].date,
             punch_in |-> picked[i].punch_in,
             punch_out |-> picked[i].punch_out,
             hours_worked |-> HoursWorked(picked[i])]]

\* Series.sum() of pandas
RECURSIVE SeriesSum_NaNPropagating(_)
SeriesSum_NaNPropagating(column) ==
    IF column = <<>> THEN Number(0)
    ELSE IF Head(column).isna \/ SeriesSum_NaNPropagating(Tail(column)).isna
    THEN NaN
    ELSE Number(Head(column).value
                + SeriesSum_NaNPropagating(Tail(column)).value)

\* skipna=True: a NaN adds nothing
RECURSIVE SeriesSum(_)
SeriesSum(column) ==
    IF column = <<>> THEN Number(0)
    ELSE IF Head(column).isna THEN SeriesSum(Tail(column))
    ELSE Number(Head(column).value + SeriesSum(Tail(column)).value)

\* the summary of an empty frame (lines 273-290)
EmptySummary ==
    [total_days_present |-> 0, total_hours |-> Number(0),
     days_with_punch_out |-> 0, incomplete_days |-> 0]

\* user_df[user_df['punch_out'].notna()]
NotNa(user_df) == SelectSeq(user_df, LAMBDA row : row.punch_out # NULL)

\* get_user_attendance_summary(name, year, month), lines 270-302
UserAttendanceSummary(led, name, month) ==
    LET df == get_monthly_attendance(led, month)
        user_df == SelectSeq(df, LAMBDA row : row.name = name)
        total_days_present == Len(user_df)
        days_with_punch_out == Len(NotNa(user_df))
        total_hours ==
            SeriesSum([i \in 1..Len(user_df) |-> user_df[i].hours_worked])
    IN  IF Len(df) = 0 THEN EmptySummary
        ELSE IF Len(user_df) = 0 THEN EmptySummary
        ELSE [total_days_present |-> total_days_present,
              \* float(total_hours) if total_hours else 0.0
              total_hours |-> IF total_hours.isna THEN NaN
                              ELSE IF total_hours.value # 0 THEN total_hours
                              ELSE Number(0),
              days_with_punch_out |-> days_with_punch_out,
              incomplete_days |-> total_days_present - days_with_punch_out]

\* The days of the ledgers asked about: the first and the last day of a
\* month and the first day of the next; the times of day recorded: the first
\* and the last of the day
ReportDays == {0, DaysPerMonth - 1, DaysPerMonth}
ReportTimes == {0, TicksPerDay - 1}
ReportMonths == 0..2

\* a record is closed on its own day, at or after its punch-in
ReportRows ==
    {row \in [name : Users, date : ReportDays, punch_in : ReportTimes,
              punch_out : ReportTimes \cup {NULL}] :
        row.punch_out # NULL => row.punch_out >= row.punch_in}

\* a row mark_attendance can add to led: not dated before the last row,
\* and the first of its (name, date)
Follows(led, row) ==
    \A i \in 1..Len(led) :
        /\ led[i].date <= row.date
        /\ ~(led[i].name = row.name /\ led[i].date = row.date)

\* Ledgers of at most n rows as sequential mark_attendance calls leave
\* them: dates in the order of the ids, one row per (name, date)
RECURSIVE LedgersUpTo(_)
LedgersUpTo(n) ==
    IF n = 0 THEN {<<>>}
    ELSE LET shorter == LedgersUpTo(n - 1)
         IN  shorter \cup
             UNION {{Append(led, row) : row \in {r \in ReportRows : Follows(led, r)}} :
                    led \in {l \in shorter : Len(l) = n - 1}}

ReportLedgers == LedgersUpTo(MaxRows)

InitReport ==
    /\ now = TicksPerDay * (DaysPerMonth + 1) - 1
    /\ ledger \in ReportLedgers
    /\ op = NoOp
    /\ ret = NoRet
    /\ pc = [s \in Sessions |-> "idle"]
    /\ local = [s \in Sessions |-> NoLocal]
    /\ known_faces = <<>>
    /\ tolerance = DefaultTolerance
    /\ calls = <<>>
    /\ disk = NoFile
    /\ NewDetector
    /\ NewSession
    /\ peer_known_faces = <<>>

get_user_attendance_summary(name, month) ==
    /\ ret' = UserAttendanceSummary(ledger, name, month)
    /\ op' = [fn |-> "get_user_attendance_summary", name |-> name,
              month |-> month, fault |-> "none"]
    /\ UNCHANGED <<now, ledger, pc, local, known_faces, tolerance, calls,
                   disk, detector, register_page, peer_known_faces>>

NextReport ==
    \E name \in Users, month \in ReportMonths :
        get_user_attendance_summary(name, month)

SpecReport == InitReport /\ [][NextReport]_vars

(***************************************************************************)
(* db.py: hours_worked as SQLite computes it.  julianday('HH:MM:SS') is    *)
(* the double nearest to 2451544.5 + s / 86400, s the second of the day;   *)
(* doubles of that size are the multiples of 2^-31, so it is               *)
(* 2451544.5 + julianday(s) * 2^-31 with julianday(s) the integer nearest  *)
(* to s * 2^31 / 86400 = s * 2^24 / 675, and 2^24 = 675 * 24855 + 91.      *)
(* The difference of two of them and its product by 24 are exact.          *)
(***************************************************************************)
SecondsPerDay == 86400

julianday(s) ==
    LET q == s \div 675
        r == s % 675
    IN  q * 2^24 + r * 24855 + (2 * 91 * r + 675) \div (2 * 675)

\* CASE WHEN punch_out IS NOT NULL
\*      THEN (julianday(punch_out) - julianday(punch_in)) * 24 ELSE NULL END,
\* the value in units of 24 * 2^-31 hours
hours_worked(punch_in, punch_out) ==
    IF punch_out # NULL
    THEN Number(julianday(punch_out) - julianday(punch_in))
    ELSE NaN

\* the times of day of the records asked about: the half hours
ClockTimes == {s \in 0..(SecondsPerDay - 1) : s % 1800 = 0}

\* get_today_attendance / get_monthly_attendance on a record with these
\* punch_in and punch_out: the hours_worked of its row
select_hours_worked(punch_in, punch_out) ==
    /\ ret' = hours_worked(punch_in, punch_out)
    /\ op' = [fn |-> "hours_worked", name |-> NONE, fault |-> "none",
              punch_in |-> punch_in, punch_out |-> punch_out]
    /\ UNCHANGED <<now, ledger, pc, local, known_faces, tolerance, calls,
                   disk, detector, register_page, peer_known_faces>>

\* a record is open, or closed at or after its punch-in
NextHours ==
    \E punch_in \in ClockTimes, punch_out \in ClockTimes \cup {NULL} :
        /\ punch_out # NULL => punch_out >= punch_in
        /\ select_hours_worked(punch_in, punch_out)

SpecHours == Init /\ [][NextHours]_vars

(***************************************************************************)
(* Two sessions on the same database file.  get_attendance_db gives each   *)
(* Streamlit session its own AttendanceDB, mark_attendance opens its own   *)
(* connection, and nothing holds a lock between the SELECT and the         *)
(* INSERT/UPDATE that follows it: the two statements are separate steps.   *)
(* The overlap is looked at within one instant of the clock (any instant): *)
(* the calls overlap faster than the clock ticks.                          *)
(***************************************************************************)
InitRace ==
    /\ now \in 0..MaxClock
    /\ ledger = <<>>
    /\ op = NoOp
    /\ ret = NoRet
    /\ pc = [s \in Sessions |-> "idle"]
    /\ local = [s \in Sessions |-> NoLocal]
    /\ known_faces = <<>>
    /\ tolerance = DefaultTolerance
    /\ calls = <<>>
    /\ disk = NoFile
    /\ NewDetector
    /\ NewSession
    /\ peer_known_faces = <<>>

\* lines 107-123: read the clock, SELECT, fetchone
BeginMark(s, name) ==
    /\ pc[s] = "idle"
    /\ local' = [local EXCEPT ![s] =
                    [name |-> name, today |-> DateStr(now),
                     current_time |-> TimeStr(now),
                     record |-> Lookup(ledger, name, DateStr(now))]]
    /\ pc' = [pc EXCEPT ![s] = "looked"]
    /\ op' = [fn |-> "select", name |-> name, fault |-> "none"]
    /\ UNCHANGED <<now, ledger, ret, known_faces, tolerance, calls, disk, detector,
                   register_page, peer_known_faces>>

\* lines 125-172: INSERT or UPDATE, commit, close, return
FinishMark(s) ==
    /\ pc[s] = "looked"
    /\ ledger' = WriteStep(ledger, local[s].record, local[s].name,
                           local[s].today, local[s].current_time)
    /\ ret' = Result(local[s].record, local[s].current_time)
    /\ op' = [fn |-> "mark_attendance", name |-> local[s].name, fault |-> "none"]
    /\ pc' = [pc EXCEPT ![s] = "idle"]
    /\ local' = [local EXCEPT ![s] = NoLocal]
    /\ UNCHANGED <<now, known_faces, tolerance, calls, disk, detector,
                   register_page, peer_known_faces>>

NextRace ==
    \/ \E s \in Sessions, name \in Users : BeginMark(s, name)
    \/ \E s \in Sessions : FinishMark(s)

SpecRace == InitRace /\ [][NextRace]_vars

(***************************************************************************)
(* face_utils.py: FaceRecognitionEngine                                    *)
(***************************************************************************)
\* coordinates of the embeddings used (tenths), and the tolerances the
\* settings slider is moved to (0.3, 0.6, 1.0)
Coords == {0, 3, 6}
Tolerances == {3, 6, 10}

\* A frame, as the face capability sees it: how many faces detect_faces
\* finds (2 stands for "more than one"), and the encoding generate_encoding
\* gives for the one face (NULL: None, no encoding).
Frames ==
    {f \in [faces : {0, 1, 2}, enc : Coords \cup {NULL}] :
        f.faces # 1 => f.enc = NULL}

Abs(x) == IF x < 0 THEN -x ELSE x

\* name in self.known_faces
Has(kf, name) == \E i \in 1..Len(kf) : kf[i].name = name

\* self.known_faces[name]
Get(kf, name) == kf[CHOOSE i \in 1..Len(kf) : kf[i].name = name].encs

\* lines 183-188: append to the user's list, or a new entry at the end
Enroll_Replace(kf, name, encoding) ==
    IF Has(kf, name)
    THEN [i \in 1..Len(kf) |->
            IF kf[i].name = name
            THEN [kf[i] EXCEPT !.encs = <<encoding>>]
            ELSE kf[i]]
    ELSE Append(kf, [name |-> name, encs |-> <<encoding>>])

Enroll(kf, name, encoding) ==
    IF Has(kf, name)
    THEN [i \in 1..Len(kf) |->
            IF kf[i].name = name
            THEN [kf[i] EXCEPT !.encs = Append(@, encoding)]
            ELSE kf[i]]
    ELSE Append(kf, [name |-> name, encs |-> <<encoding>>])

\* del self.known_faces[user_name]
Remove_Emptied(kf, name) ==
    [i \in 1..Len(kf) |->
        IF kf[i].name = name THEN [kf[i] EXCEPT !.encs = <<>>] ELSE kf[i]]

Remove(kf, name) == SelectSeq(kf, LAMBDA e : e.name # name)

\* lines 265-271: the flat lists all_known_encodings / all_known_names,
\* as one list of (name, enc) pairs
RECURSIVE Flatten(_)
Flatten(kf) ==
    IF kf = <<>> THEN <<>>
    ELSE [i \in 1..Len(Head(kf).encs) |->
            [name |-> Head(kf).name, enc |-> Head(kf).encs[i]]]
         \o Flatten(Tail(kf))

\* face_recognition.face_distance: the Euclidean norm of each difference
face_distance(encodings, probe) ==
    [i \in 1..Len(encodings) |-> Abs(encodings[i] - probe)]

\* np.argmin: the first index of the least value
argmin_Last(d) ==
    CHOOSE i \in 1..Len(d) :
        /\ \A j \in 1..Len(d) : d[i] <= d[j]
        /\ \A j \in 1..Len(d) : j > i => d[j] > d[i]

argmin_Max(d) ==
    CHOOSE i \in 1..Len(d) : \A j \in 1..Len(d) : d[i] >= d[j]

argmin(d) ==
    CHOOSE i \in 1..Len(d) :
        /\ \A j \in 1..Len(d) : d[i] <= d[j]
        /\ \A j \in 1..Len(d) : j < i => d[j] > d[i]

\* line 293: best_distance < self.tolerance
Accepts_AtTolerance(best_distance, tol) == best_distance <= tol

Accepts(best_distance, tol) == best_distance < tol

\* a confidence, as the fraction num/den
Zero == [num |-> 0, den |-> 1]
\* line 296: 1 - (best_distance / self.tolerance)
Confidence_OfDistance(best_distance, tol) == [num |-> best_distance, den |-> tol]

Confidence(best_distance, tol) == [num |-> tol - best_distance, den |-> tol]

\* lines 164 and 232: len(face_locations) > 1
MultipleFaces_Never(faces) == FALSE

MultipleFaces(faces) == faces > 1

Failure(message) ==
    [success |-> FALSE, name |-> NONE, confidence |-> Zero,
     message |-> message, best_distance |-> NULL, distances |-> <<>>]

\* lines 242-250: the check for an empty gallery
EmptyGalleryCheck_Skipped(kf) == FALSE

EmptyGalleryCheck(kf) == kf = <<>>

\* lines 265-312: the comparison with the gallery and the threshold test.
\* `message` names the message returned; best_distance is the distance the
\* not-recognized message prints.
Match(kf, tol, frame) ==
    LET flat == Flatten(kf)
        distances == face_distance([i \in 1..Len(flat) |-> flat[i].enc],
                                   frame.enc)
    IN  IF Len(distances) = 0 THEN Failure("no_known_faces")
        ELSE
            LET best_match_idx == argmin(distances)
                best_distance == distances[best_match_idx]
            IN  IF Accepts(best_distance, tol)
                THEN [success |-> TRUE,
                      name |-> flat[best_match_idx].name,
                      confidence |-> Confidence(best_distance, tol),
                      message |-> "recognized",
                      best_distance |-> best_distance,
                      distances |-> distances]
                ELSE [success |-> FALSE, name |-> NONE,
                      confidence |-> Zero,
                      message |-> "not_recognized",
                      best_distance |-> best_distance,
                      distances |-> distances]

\* recognize_face(image_rgb): the returned dict
RecognizeFace_GalleryFirst(kf, tol, frame) ==
    IF EmptyGalleryCheck(kf) THEN Failure("no_users")
    ELSE IF frame.faces = 0 THEN Failure("no_face")
    ELSE IF MultipleFaces(frame.faces) THEN Failure("multiple_faces")
    ELSE IF frame.enc = NULL THEN Failure("encoding_failed")
    ELSE Match(kf, tol, frame)

RecognizeFace(kf, tol, frame) ==
    IF frame.faces = 0 THEN Failure("no_face")
    ELSE IF MultipleFaces(frame.faces) THEN Failure("multiple_faces")
    ELSE IF EmptyGalleryCheck(kf) THEN Failure("no_users")
    ELSE IF frame.enc = NULL THEN Failure("encoding_failed")
    ELSE Match(kf, tol, frame)

\* What can go wrong in save_encodings: nothing; makedirs or open raises
\* (the file is untouched); pickle.dump raises after open(..., 'wb') has
\* truncated the file.
SaveFaults == {"none", "open", "dump"}

\* save_encodings (lines 72-83): the file it leaves.  The exception is
\* caught and shown with st.error; nothing is raised or returned.
SaveEncodings(dsk, kf, fault) ==
    IF fault = "none" THEN Pickled(kf)
    ELSE IF fault = "open" THEN dsk
    ELSE Truncated

\* load_encodings (lines 56-70): the gallery a new engine starts with
LoadEncodings(dsk) ==
    IF dsk.state = "valid" THEN dsk.known_faces ELSE <<>>

\* register_face reaches save_encodings with this frame
Encodable(frame) == frame.faces = 1 /\ frame.enc # NULL

\* register_face(image_rgb, user_name): the gallery, the file and the
\* returned dict
RegisterFace(kf, dsk, frame, user_name, fault) ==
    IF frame.faces = 0
    THEN [known_faces |-> kf, disk |-> dsk,
          ret |-> [success |-> FALSE, message |-> "no_face"]]
    ELSE IF MultipleFaces(frame.faces)
    THEN [known_faces |-> kf, disk |-> dsk,
          ret |-> [success |-> FALSE, message |-> "multiple_faces"]]
    ELSE IF frame.enc = NULL
    THEN [known_faces |-> kf, disk |-> dsk,
          ret |-> [success |-> FALSE, message |-> "encoding_failed"]]
    ELSE [known_faces |-> Enroll(kf, user_name, frame.enc),
          disk |-> SaveEncodings(dsk, Enroll(kf, user_name, frame.enc), fault),
          ret |-> [success |-> TRUE,
                   message |-> IF Has(kf, user_name) THEN "added_scan"
                               ELSE "registered"]]

\* delete_user(user_name)
DeleteUser_Unchecked(kf, dsk, user_name, fault) ==
    [known_faces |-> Remove(kf, user_name),
     disk |-> SaveEncodings(dsk, Remove(kf, user_name), fault),
     ret |-> [success |-> TRUE, message |-> "deleted"]]

DeleteUser(kf, dsk, user_name, fault) ==
    IF Has(kf, user_name)
    THEN [known_faces |-> Remove(kf, user_name),
          disk |-> SaveEncodings(dsk, Remove(kf, user_name), fault),
          ret |-> [success |-> TRUE, message |-> "deleted"]]
    ELSE [known_faces |-> kf, disk |-> dsk,
          ret |-> [success |-> FALSE, message |-> "not_found"]]

\* get_user_encoding_count(user_name)
get_user_encoding_count(kf, user_name) ==
    IF Has(kf, user_name) THEN Len(Get(kf, user_name)) ELSE 0

\* get_registered_users()
get_registered_users(kf) == [i \in 1..Len(kf) |-> kf[i].name]

EngineOp(fn, name, frame, fault) ==
    [fn |-> fn, name |-> name, frame |-> frame, fault |-> fault]
NoFrame == [faces |-> 0, enc |-> NULL]

\* register_face(frame, user_name), run to completion; a fault is one of
\* save_encodings, so it happens only in a call that reaches it
RegisterCall(frame, user_name, faults) ==
    \E fault \in faults :
        /\ Has(known_faces, user_name)
            => Len(Get(known_faces, user_name)) < MaxEnc
        /\ fault # "none" => Encodable(frame)
        /\ LET r == RegisterFace(known_faces, disk, frame, user_name, fault)
           IN  /\ known_faces' = r.known_faces
               /\ disk' = r.disk
               /\ ret' = r.ret
        /\ op' = EngineOp("register_face", user_name, frame, fault)
        /\ UNCHANGED <<now, ledger, pc, local, tolerance, calls, detector,
                   register_page, peer_known_faces>>

\* a call during which the file system raises nothing
register_face(frame, user_name) == RegisterCall(frame, user_name, {"none"})

\* a call whose save_encodings fails
register_face_failing(frame, user_name) ==
    RegisterCall(frame, user_name, SaveFaults \ {"none"})

DeleteCall(user_name, faults) ==
    \E fault \in faults :
        /\ fault # "none" => Has(known_faces, user_name)
        /\ LET r == DeleteUser(known_faces, disk, user_name, fault)
           IN  /\ known_faces' = r.known_faces
               /\ disk' = r.disk
               /\ ret' = r.ret
        /\ op' = EngineOp("delete_user", user_name, NoFrame, fault)
        /\ UNCHANGED <<now, ledger, pc, local, tolerance, calls, detector,
                   register_page, peer_known_faces>>

delete_user(user_name) == DeleteCall(user_name, {"none"})

delete_user_failing(user_name) == DeleteCall(user_name, SaveFaults \ {"none"})

recognize_face(frame) ==
    /\ ret' = RecognizeFace(known_faces, tolerance, frame)
    /\ op' = EngineOp("recognize_face", NONE, frame, "none")
    /\ UNCHANGED <<now, ledger, pc, local, known_faces, tolerance, calls,
                   disk, detector,
                   register_page, peer_known_faces>>

\* app.py 497-508: the tolerance slider of the settings page
set_tolerance(new_tolerance) ==
    /\ new_tolerance # tolerance
    /\ tolerance' = new_tolerance
    /\ op' = EngineOp("set_tolerance", NONE, NoFrame, "none")
    /\ UNCHANGED <<now, ledger, ret, pc, local, known_faces, calls,
                   disk, detector,
                   register_page, peer_known_faces>>

\* get_recognition_engine in a new session (the app restarted, a new
\* browser session): FaceRecognitionEngine() loads the file
FaceRecognitionEngine ==
    /\ known_faces' = LoadEncodings(disk)
    /\ tolerance' = DefaultTolerance
    /\ op' = EngineOp("FaceRecognitionEngine", NONE, NoFrame, "none")
    /\ ret' = NoRet
    /\ UNCHANGED <<now, ledger, pc, local, calls, disk, detector,
                   register_page, peer_known_faces>>

\* The matcher, with a file system that does not fail
NextMatch ==
    \/ \E frame \in Frames, name \in Users : register_face(frame, name)
    \/ \E name \in Users : delete_user(name)
    \/ \E frame \in Frames : recognize_face(frame)
    \/ \E t \in Tolerances : set_tolerance(t)

SpecMatch == Init /\ [][NextMatch]_vars

\* The gallery and its file, with a file system that may fail and sessions
\* that start anew.  Two encodings are enough to tell stored lists apart.
StoreFrames == {f \in Frames : f.enc \in {NULL, 0, 3}}

NextStore ==
    \/ \E frame \in StoreFrames, name \in Users : register_face(frame, name)
    \/ \E frame \in StoreFrames, name \in Users :
            register_face_failing(frame, name)
    \/ \E name \in Users : delete_user(name)
    \/ \E name \in Users : delete_user_failing(name)
    \/ FaceRecognitionEngine

SpecStore == Init /\ [][NextStore]_vars

(***************************************************************************)
(* face_utils.py: two sessions.  get_recognition_engine gives every        *)
(* session its own FaceRecognitionEngine, on the same data/encodings.pkl;  *)
(* known_faces is the gallery of the engine of one session and             *)
(* peer_known_faces that of the other.                                     *)
(***************************************************************************)
\* get_recognition_engine in the second session, when it starts
peer_FaceRecognitionEngine ==
    /\ peer_known_faces' = LoadEncodings(disk)
    /\ op' = EngineOp("peer_FaceRecognitionEngine", NONE, NoFrame, "none")
    /\ ret' = NoRet
    /\ UNCHANGED <<now, ledger, pc, local, known_faces, tolerance, calls,
                   disk, detector, register_page>>

\* register_face(frame, user_name) on the engine of the second session
peer_register_face(frame, user_name) ==
    /\ Has(peer_known_faces, user_name)
        => Len(Get(peer_known_faces, user_name)) < MaxEnc
    /\ LET r == RegisterFace(peer_known_faces, disk, frame, user_name, "none")
       IN  /\ peer_known_faces' = r.known_faces
           /\ disk' = r.disk
           /\ ret' = r.ret
    /\ op' = EngineOp("peer_register_face", user_name, frame, "none")
    /\ UNCHANGED <<now, ledger, pc, local, known_faces, tolerance, calls,
                   detector, register_page>>

\* delete_user(user_name) on the engine of the second session
peer_delete_user(user_name) ==
    /\ LET r == DeleteUser(peer_known_faces, disk, user_name, "none")
       IN  /\ peer_known_faces' = r.known_faces
           /\ disk' = r.disk
           /\ ret' = r.ret
    /\ op' = EngineOp("peer_delete_user", user_name, NoFrame, "none")
    /\ UNCHANGED <<now, ledger, pc, local, known_faces, tolerance, calls,
                   detector, register_page>>

\* Two sessions at work, and sessions that start anew; the file system
\* does not fail
NextShared ==
    \/ \E frame \in StoreFrames, name \in Users : register_face(frame, name)
    \/ \E name \in Users : delete_user(name)
    \/ FaceRecognitionEngine
    \/ \E frame \in StoreFrames, name \in Users :
            peer_register_face(frame, name)
    \/ \E name \in Users : peer_delete_user(name)
    \/ peer_FaceRecognitionEngine

SpecShared == Init /\ [][NextShared]_vars

(***************************************************************************)
(* spoof.py: LivenessDetector                                              *)
(*                                                                         *)
(* A frame, as the detector sees it: `gray`, the level of its grayscale    *)
(* image (for images of one uniform level, np.sum(cv2.absdiff(a, b)) is    *)
(* the absolute difference of the two levels), and `ear`, the average eye  *)
(* aspect ratio of the first face in hundredths (NULL: face_landmarks      *)
(* found no face).                                                         *)
(***************************************************************************)
\* LivenessDetector(blink_threshold=0.25, frame_variation_threshold=500,
\* ear_history_len=10); self.max_history = 5
blink_threshold == 25
frame_variation_threshold == 500
ear_history_len == 10
max_history == 5

\* list.append(x) and, once the list is longer than n, list.pop(0)
Push_EvictNewest(history, x, n) ==
    IF Len(history) + 1 > n THEN history ELSE Append(history, x)

Push(history, x, n) ==
    IF Len(history) + 1 > n THEN Tail(Append(history, x))
    ELSE Append(history, x)

\* detect_frame_variation (lines 177-213): the history it leaves, and the
\* returned is_live and variation_score
DetectFrameVariation(fh, frame) ==
    LET h == Push(fh, frame.gray, max_history)
        variation_score ==
            IF Len(h) < 2 THEN 0 ELSE Abs(h[Len(h) - 1] - h[Len(h)])
    IN  [frame_history |-> h,
         is_live |-> IF Len(h) < 2 THEN TRUE
                     ELSE variation_score > frame_variation_threshold,
         variation_score |-> variation_score]

\* line 139: the EAR dropped below the threshold and then recovered
BlinkPattern_NotStrict(eh) ==
    /\ \E i \in 1..Len(eh) : eh[i] <= blink_threshold
    /\ eh[Len(eh)] >= blink_threshold

BlinkPattern_OldestDip(eh) ==
    /\ eh[1] < blink_threshold
    /\ eh[Len(eh)] > blink_threshold

BlinkPattern(eh) ==
    /\ \E i \in 1..Len(eh) : eh[i] < blink_threshold
    /\ eh[Len(eh)] > blink_threshold

\* lines 137-140: self.blink_detected after the check for a blink
BlinkFlag_NotSticky(bd, eh) ==
    Len(eh) = ear_history_len /\ BlinkPattern(eh)

BlinkFlag(bd, eh) ==
    IF Len(eh) = ear_history_len /\ BlinkPattern(eh) THEN TRUE ELSE bd

\* detect_blink_presence (lines 102-148): the history and the flag it
\* leaves, and the returned has_blink and avg_ear
DetectBlinkPresence(eh, bd, frame) ==
    IF frame.ear = NULL
    THEN [ear_history |-> eh, blink_detected |-> bd,
          has_blink |-> FALSE, avg_ear |-> 0]
    ELSE LET h == Push(eh, frame.ear, ear_history_len)
         IN  [ear_history |-> h,
              blink_detected |-> BlinkFlag(bd, h),
              has_blink |-> BlinkFlag(bd, h),
              avg_ear |-> frame.ear]

\* line 245: live if there is frame variation AND a blink is detected
Verdict_BlinkOnly(variation_is_live, has_blink) == has_blink

Verdict_VariationOnly(variation_is_live, has_blink) == variation_is_live

Verdict(variation_is_live, has_blink) == variation_is_live /\ has_blink

\* check_liveness (lines 241-264): the detector it leaves and the returned
\* dict
CheckLiveness(fh, eh, bd, frame) ==
    LET variation_result == DetectFrameVariation(fh, frame)
        blink_result == DetectBlinkPresence(eh, bd, frame)
    IN  [frame_history |-> variation_result.frame_history,
         ear_history |-> blink_result.ear_history,
         blink_detected |-> blink_result.blink_detected,
         ret |-> [is_live |-> Verdict(variation_result.is_live,
                                      blink_result.has_blink),
                  variation_is_live |-> variation_result.is_live,
                  has_blink |-> blink_result.has_blink,
                  variation_score |-> variation_result.variation_score,
                  avg_ear |-> blink_result.avg_ear]]

DetectorOp(fn, frame) == [fn |-> fn, name |-> NONE, frame |-> frame, fault |-> "none"]

check_liveness(frame) ==
    /\ LET r == CheckLiveness(frame_history, ear_history, blink_detected, frame)
       IN  /\ frame_history' = r.frame_history
           /\ ear_history' = r.ear_history
           /\ blink_detected' = r.blink_detected
           /\ ret' = r.ret
    /\ op' = DetectorOp("check_liveness", frame)
    /\ UNCHANGED <<now, ledger, pc, local, known_faces, tolerance, calls, disk,
                   register_page, peer_known_faces>>

\* reset (lines 266-270)
reset_KeepsFlag ==
    /\ frame_history' = <<>>
    /\ ear_history' = <<>>
    /\ blink_detected' = blink_detected
    /\ op' = DetectorOp("reset", NoImage)
    /\ UNCHANGED <<now, ledger, ret, pc, local, known_faces, tolerance, calls,
                   disk,
                   register_page, peer_known_faces>>

reset ==
    /\ frame_history' = <<>>
    /\ ear_history' = <<>>
    /\ blink_detected' = FALSE
    /\ op' = DetectorOp("reset", NoImage)
    /\ UNCHANGED <<now, ledger, ret, pc, local, known_faces, tolerance, calls,
                   disk,
                   register_page, peer_known_faces>>

\* The verdict: scenes that move or stand still, eyes open or closed (or no
\* face found)
LiveFrames == [gray : {0, 501}, ear : {20, 30, NULL}]

NextLive ==
    \/ \E frame \in LiveFrames : check_liveness(frame)
    \/ reset

SpecLive == Init /\ [][NextLive]_vars

\* The blink flag: a still scene, the EAR below, at and above the threshold
\* (or no face found)
BlinkFrames == [gray : {0}, ear : {20, 25, 30, NULL}]

NextBlink ==
    \/ \E frame \in BlinkFrames : check_liveness(frame)
    \/ reset

SpecBlink == Init /\ [][NextBlink]_vars

(***************************************************************************)
(* app.py: page_register_face, the liveness check                          *)
(*                                                                         *)
(* A run of the page starts the loop of lines 176-194 when                 *)
(* liveness_check_started is set; each iteration takes one frame of the    *)
(* camera, so the loop is followed one iteration at a step.  One run of    *)
(* the loop is one liveness attempt.  The camera is taken as opened.       *)
(***************************************************************************)
\* for i in range(30)
FrameBudget == 30

\* lines 185-194: where the run stands after the verdict on the frame of
\* iteration rn.i: success and break, the next iteration, or the else
\* branch of the exhausted loop
AfterVerdict_KeepsGoing(rn, is_live) ==
    IF rn.i + 1 = FrameBudget
    THEN [rn EXCEPT !.at = "idle", !.i = rn.i + 1, !.message = "liveness_failed"]
    ELSE [rn EXCEPT !.at = "loop", !.i = rn.i + 1, !.message = NONE]

AfterVerdict_OneMore(rn, is_live) ==
    IF is_live
    THEN [rn EXCEPT !.at = "idle", !.i = rn.i + 1, !.message = "liveness_ok"]
    ELSE IF rn.i + 1 = FrameBudget + 1
    THEN [rn EXCEPT !.at = "idle", !.i = rn.i + 1, !.message = "liveness_failed"]
    ELSE [rn EXCEPT !.at = "loop", !.i = rn.i + 1, !.message = NONE]

AfterVerdict(rn, is_live) ==
    IF is_live
    THEN [rn EXCEPT !.at = "idle", !.i = rn.i + 1, !.message = "liveness_ok"]
    ELSE IF rn.i + 1 = FrameBudget
    THEN [rn EXCEPT !.at = "idle", !.i = rn.i + 1, !.message = "liveness_failed"]
    ELSE [rn EXCEPT !.at = "loop", !.i = rn.i + 1, !.message = NONE]

\* lines 185-194: the keys of the session after the verdict
SessionAfterVerdict(ss, rn, is_live, frame) ==
    IF is_live
    THEN [liveness_check_started |-> FALSE, frame_captured |-> TRUE,
          captured_frame |-> frame]
    ELSE IF AfterVerdict(rn, is_live).at = "idle"
    THEN [ss EXCEPT !.liveness_check_started = FALSE]
    ELSE ss

\* line 207: the liveness part of the run is over (rn.at = "idle"); the
\* register part follows if the run has register_button set, unless
\* st.experimental_rerun() (line 190) has ended the run
ThenRegister(rn, rerun) ==
    IF rn.at = "idle" /\ rn.register_button /\ ~rerun
    THEN [rn EXCEPT !.at = "register"]
    ELSE rn

PageOp(fn, frame, fault) ==
    [fn |-> fn, name |-> NONE, frame |-> frame, fault |-> fault]

\* lines 168-172: a run of the page with the "Start Liveness Check" button
\* pressed: the detector is reset and the loop entered
start_liveness_check ==
    /\ run.at = "idle"
    /\ session_state' = [session_state EXCEPT !.liveness_check_started = TRUE]
    /\ frame_history' = <<>>
    /\ ear_history' = <<>>
    /\ blink_detected' = FALSE
    /\ run' = [at |-> "loop", i |-> 0, message |-> NONE,
               register_button |-> FALSE,
               register_enabled |-> session_state.frame_captured,
               user_name |-> NONE]
    /\ op' = PageOp("start_liveness_check", NoImage, "none")
    /\ UNCHANGED <<now, ledger, ret, pc, local, known_faces, tolerance, calls,
                   disk, peer_known_faces>>

\* lines 168-205: a run of the page without that button (any other
\* interaction, or the rerun asked for at line 190): the loop is entered if
\* liveness_check_started is still set; otherwise the page shows the
\* captured frame or the live feed
rerun_page ==
    /\ run.at = "idle"
    /\ run' = [at |-> IF session_state.liveness_check_started
                      THEN "loop" ELSE "idle",
               i |-> IF session_state.liveness_check_started THEN 0 ELSE run.i,
               message |-> NONE,
               register_button |-> FALSE,
               register_enabled |-> session_state.frame_captured,
               user_name |-> NONE]
    /\ op' = PageOp("page_register_face", NoImage, "none")
    /\ UNCHANGED <<now, ledger, ret, pc, local, known_faces, tolerance, calls,
                   disk, detector, session_state, peer_known_faces>>

\* lines 177-180: camera.capture_frame() fails: st.error and break
capture_fails ==
    /\ run.at = "loop"
    /\ run' = ThenRegister([run EXCEPT !.at = "idle",
                                       !.message = "capture_failed"], FALSE)
    /\ op' = PageOp("loop_frame", NoImage, "capture")
    /\ UNCHANGED <<now, ledger, ret, pc, local, known_faces, tolerance, calls,
                   disk, detector, session_state, peer_known_faces>>

\* lines 177-194: one iteration of the loop on a captured frame
loop_frame(frame) ==
    /\ run.at = "loop"
    /\ LET r == CheckLiveness(frame_history, ear_history, blink_detected, frame)
       IN  /\ frame_history' = r.frame_history
           /\ ear_history' = r.ear_history
           /\ blink_detected' = r.blink_detected
           /\ ret' = r.ret
           /\ run' = ThenRegister(AfterVerdict(run, r.ret.is_live),
                                   r.ret.is_live)
           /\ session_state' =
                SessionAfterVerdict(session_state, run, r.ret.is_live, frame)
    /\ op' = PageOp("loop_frame", frame, "none")
    /\ UNCHANGED <<now, ledger, pc, local, known_faces, tolerance, calls, disk,
                   peer_known_faces>>

\* the frames of an attempt: a still scene with the eyes closed, a moving
\* one with the eyes open
AttemptFrames == {[gray |-> 0, ear |-> 20], [gray |-> 501, ear |-> 30]}

NextAttempt ==
    \/ start_liveness_check
    \/ rerun_page
    \/ capture_fails
    \/ \E frame \in AttemptFrames : loop_frame(frame)

SpecAttempt == Init /\ [][NextAttempt]_vars

\* The loop is a for loop of the script: once entered, its iterations follow
\* one another until it ends.
SpecAttemptFair ==
    /\ SpecAttempt
    /\ WF_vars(capture_fails \/ \E frame \in AttemptFrames : loop_frame(frame))

(***************************************************************************)
(* app.py: page_register_face, the "Register Face" button                  *)
(***************************************************************************)
\* The image as FaceRecognitionEngine sees it.  None (NoImage) makes
\* face_recognition.face_locations raise, and detect_faces return [].
EngineView(image) ==
    IF image = NoImage THEN NoFrame
    ELSE [faces |-> image.faces, enc |-> image.enc]

\* lines 207-224, in a run with register_button set: register_face on
\* st.session_state.captured_frame, which a success clears.  (The key
\* 'captured_frame' is in the session once a LIVE verdict has set it, which
\* it has before the button is ever drawn enabled.)
RegisterPart(ss, kf, dsk, user_name) ==
    IF user_name = NONE
    THEN [session_state |-> ss, known_faces |-> kf, disk |-> dsk,
          ret |-> NoRet, invoked |-> FALSE]
    ELSE LET r == RegisterFace(kf, dsk, EngineView(ss.captured_frame),
                               user_name, "none")
         IN  [session_state |->
                IF r.ret.success
                THEN [ss EXCEPT !.captured_frame = NoImage,
                                !.frame_captured = FALSE]
                ELSE ss,
              known_faces |-> r.known_faces, disk |-> r.disk,
              ret |-> r.ret, invoked |-> TRUE]

RegisterOp(fn, user_name, image, invoked) ==
    [fn |-> fn, name |-> user_name, frame |-> image, fault |-> "none",
     invoked |-> invoked]

\* the register part of a run, and what it leaves
DoRegister(fn, user_name, rn) ==
    LET r == RegisterPart(session_state, known_faces, disk, user_name)
    IN  /\ session_state' = r.session_state
        /\ known_faces' = r.known_faces
        /\ disk' = r.disk
        /\ ret' = r.ret
        /\ run' = rn
        /\ op' = RegisterOp(fn, user_name, session_state.captured_frame,
                            r.invoked)

\* A run of the page with the "Register Face" button pressed, which the
\* user can do when the page on display shows it enabled.  If
\* liveness_check_started is set the loop comes first.
press_register(user_name) ==
    /\ run.at = "idle"
    /\ run.register_enabled
    /\ Has(known_faces, user_name)
        => Len(Get(known_faces, user_name)) < MaxEnc
    /\ IF session_state.liveness_check_started
       THEN /\ run' = [at |-> "loop", i |-> 0, message |-> NONE,
                       register_button |-> TRUE,
                       register_enabled |-> session_state.frame_captured,
                       user_name |-> user_name]
            /\ op' = RegisterOp("press_register", user_name, NoImage, FALSE)
            /\ UNCHANGED <<session_state, known_faces, disk, ret, peer_known_faces>>
       ELSE DoRegister("press_register", user_name,
                       [run EXCEPT !.message = NONE,
                                   !.register_enabled =
                                        session_state.frame_captured])
    /\ UNCHANGED <<now, ledger, pc, local, tolerance, calls, detector, peer_known_faces>>

\* the register part of such a run, after its loop
register_after_loop ==
    /\ run.at = "register"
    /\ DoRegister("register_after_loop", run.user_name,
                  [run EXCEPT !.at = "idle", !.register_button = FALSE,
                              !.user_name = NONE])
    /\ UNCHANGED <<now, ledger, pc, local, tolerance, calls, detector, peer_known_faces>>

\* the frames of the Register page: a still scene with the eyes closed, in
\* which detect_faces finds no face, and a moving one with the eyes open
\* and one face that can be encoded
RegisterFrames ==
    {[gray |-> 0, ear |-> 20, faces |-> 0, enc |-> NULL],
     [gray |-> 501, ear |-> 30, faces |-> 1, enc |-> 3]}

\* the names entered: a name, or nothing
RegisterNames == {"alice", NONE}

NextRegister ==
    \/ start_liveness_check
    \/ rerun_page
    \/ capture_fails
    \/ \E frame \in RegisterFrames : loop_frame(frame)
    \/ \E user_name \in RegisterNames : press_register(user_name)
    \/ register_after_loop

SpecRegister == Init /\ [][NextRegister]_vars

(***************************************************************************)
(* app.py: page_mark_attendance                                            *)
(***************************************************************************)
\* one call the page makes: the function, its argument (a name, if any)
\* and whether it succeeded (for check_liveness: is_live)
Call(fn, arg, ok) == [fn |-> fn, arg |-> arg, ok |-> ok]

\* what the camera gives one run of the page: it cannot be opened, it gives
\* no frame, or it gives a frame
Cameras == {"unavailable", "no_frame", "frame"}

\* galleries the engine may have loaded from data/encodings.pkl when the
\* session started
Galleries ==
    {<<>>,
     <<[name |-> "alice", encs |-> <<0>>], [name |-> "bob", encs |-> <<6, 7>>]>>}

\* lines 249-252: the page fetches the camera, the engine, the database and
\* the liveness detector of the session
PageSetup == <<Call("get_liveness_detector", NONE, TRUE)>>

\* line 275: if recognition_result['success']
Recognized_Always(recognition_result) == TRUE

Recognized(recognition_result) == recognition_result.success

\* One run of the page: the calls it makes, the ledger it leaves and what
\* the last of its calls returned.
PageMarkAttendance(kf, tol, led, camera, frame, today, current_time) ==
    IF Len(kf) = 0
    THEN [calls |-> PageSetup \o <<Call("get_user_count", NONE, FALSE)>>,
          ledger |-> led, ret |-> NoRet]
    ELSE IF camera = "unavailable"
    THEN [calls |-> PageSetup \o <<Call("get_user_count", NONE, TRUE),
                                   Call("open_camera", NONE, FALSE)>>,
          ledger |-> led, ret |-> NoRet]
    ELSE IF camera = "no_frame"
    THEN [calls |-> PageSetup \o <<Call("get_user_count", NONE, TRUE),
                                   Call("capture_frame", NONE, FALSE)>>,
          ledger |-> led, ret |-> NoRet]
    ELSE
        LET recognition_result == RecognizeFace(kf, tol, frame)
            upto == PageSetup \o
                    <<Call("get_user_count", NONE, TRUE),
                      Call("capture_frame", NONE, TRUE),
                      Call("recognize_face", NONE, recognition_result.success)>>
        IN  IF Recognized(recognition_result)
            THEN LET r == MarkAttendance(led, recognition_result.name, today,
                                         current_time, "none")
                 IN  [calls |-> Append(upto,
                                   Call("mark_attendance",
                                        recognition_result.name,
                                        r.ret.success)),
                      ledger |-> r.ledger, ret |-> r.ret]
            ELSE [calls |-> upto, ledger |-> led, ret |-> NoRet]

InitMark ==
    /\ now = 0
    /\ ledger = <<>>
    /\ op = NoOp
    /\ ret = NoRet
    /\ pc = [s \in Sessions |-> "idle"]
    /\ local = [s \in Sessions |-> NoLocal]
    /\ known_faces \in Galleries
    /\ tolerance = DefaultTolerance
    /\ calls = <<>>
    /\ disk = (IF known_faces = <<>> THEN NoFile ELSE Pickled(known_faces))
    /\ NewDetector
    /\ NewSession
    /\ peer_known_faces = <<>>

page_mark_attendance(camera, frame) ==
    \E adv \in 0..1 :
        /\ now + adv <= MaxClock
        /\ LET r == PageMarkAttendance(known_faces, tolerance, ledger, camera,
                                       frame, DateStr(now), TimeStr(now + adv))
           IN  /\ calls' = r.calls
               /\ ledger' = r.ledger
               /\ ret' = r.ret
               \* the clock is read inside mark_attendance only
               /\ now' = IF r.calls[Len(r.calls)].fn = "mark_attendance"
                         THEN now + adv ELSE now
        /\ op' = [fn |-> "page_mark_attendance", name |-> NONE,
                  fault |-> "none", camera |-> camera,
                  frame |-> IF camera = "frame" THEN frame ELSE NoFrame]
        /\ UNCHANGED <<pc, local, known_faces, tolerance, disk, detector,
                   register_page, peer_known_faces>>

NextMark ==
    \/ Tick
    \/ \E camera \in Cameras, frame \in Frames :
            page_mark_attendance(camera, frame)

SpecMark == InitMark /\ [][NextMark]_vars

(***************************************************************************)
(* Properties of the ledger                                                *)
(***************************************************************************)
\* the rows of (name, day)
RowsOf(led, name, day) ==
    {i \in 1..Len(led) : led[i].name = name /\ led[i].date = day}

\* this step is a completed call mark_attendance(u)
Marks(u) == op'.fn = "mark_attendance" /\ op'.name = u
\* ... during which the persistence layer did not fail
MarksOk(u) == Marks(u) /\ op'.fault = "none"

\* C2: after any sequence of sequential mark_attendance calls the ledger
\* holds at most one record per (identity, calendar day).
C2_OneRecordPerIdentityDay ==
    \A i, j \in 1..Len(ledger) :
        (ledger[i].name = ledger[j].name /\ ledger[i].date = ledger[j].date)
            => i = j

\* C2 witness: a user with records on two days, one of them completed, just
\* after a refused third recognition.
C2_Witness ==
    /\ op.fn = "mark_attendance" /\ op.fault = "none"
    /\ ret.success = FALSE
    /\ \E i, j \in 1..Len(ledger) :
        /\ i # j
        /\ ledger[i].name = op.name /\ ledger[j].name = op.name
        /\ ledger[i].date # ledger[j].date
        /\ ledger[j].punch_out # NULL

\* C3: when mark_attendance(u) is called (and the database does not fail)
\* and no record exists for (u, today), exactly one record is created, with
\* punch-in = the current time and punch-out empty; the result is success,
\* action punch_in, timestamp = that punch-in time.
C3_FirstRecognitionPunchesIn ==
    [][\A u \in Users :
        (MarksOk(u) /\ RowsOf(ledger, u, DateStr(now)) = {})
        => /\ Len(ledger') = Len(ledger) + 1
           /\ SubSeq(ledger', 1, Len(ledger)) = ledger
           /\ ledger'[Len(ledger')] =
                [name |-> u, date |-> DateStr(now),
                 punch_in |-> TimeStr(now'), punch_out |-> NULL]
           /\ ret' = [success |-> TRUE, action |-> "punch_in",
                      timestamp |-> ledger'[Len(ledger')].punch_in]]_vars

\* C3 witness: a punch-in has just been recorded on a ledger that already
\* held records.
C3_Witness ==
    /\ op.fn = "mark_attendance" /\ op.fault = "none"
    /\ ret.action = "punch_in"
    /\ Len(ledger) >= 2
    /\ ledger[Len(ledger)].name = op.name
    /\ ledger[Len(ledger)].punch_out = NULL

\* C4: when mark_attendance(u) is called (and the database does not fail)
\* and the record for (u, today) has an empty punch-out, that same record
\* gets punch-out = the current time, nothing else changes (punch-in kept,
\* no new record), and the result is success, action punch_out, timestamp =
\* the punch-out time.
C4_SecondRecognitionPunchesOut ==
    [][\A u \in Users : \A i \in 1..Len(ledger) :
        (/\ MarksOk(u)
         /\ i \in RowsOf(ledger, u, DateStr(now))
         /\ ledger[i].punch_out = NULL)
        => /\ ledger' = [ledger EXCEPT ![i].punch_out = TimeStr(now')]
           /\ ret' = [success |-> TRUE, action |-> "punch_out",
                      timestamp |-> ledger'[i].punch_out]]_vars

\* C4 witness: a punch-out has just been recorded while the same user still
\* has an open record of another day.
C4_Witness ==
    /\ op.fn = "mark_attendance" /\ op.fault = "none"
    /\ ret.action = "punch_out"
    /\ \E i, j \in 1..Len(ledger) :
        /\ ledger[i].name = op.name /\ ledger[i].punch_out = ret.timestamp
        /\ ledger[j].name = op.name /\ ledger[j].punch_out = NULL

PunchedOut(led, u) ==
    /\ \E i \in 1..Len(led) : led[i].name = u
    /\ led[Max({i \in 1..Len(led) : led[i].name = u})].punch_out # NULL

\* the day of the user's latest record
LastDay(led, u) == led[Max({i \in 1..Len(led) : led[i].name = u})].date

C7_NoDuplicateUnderOverlap ==
    \A u \in Users : \A d \in 0..DateStr(MaxClock) :
        Cardinality(RowsOf(ledger, u, d)) <= 1

\* C37: the outcome of mark_attendance(u) on day D depends only on u's
\* record of day D: with no record of that day it punches in, whatever the
\* records of earlier days (an open one included); with one, it punches out
\* if that record is open and is refused if it is closed; and no record
\* dated on another day is modified, so an open record of a past day stays
\* open.
C37_OnlyTheRecordOfTheDayCounts ==
    [][\A u \in Users :
        MarksOk(u) =>
            LET D == DateStr(now)
                todays == RowsOf(ledger, u, D)
            IN  /\ todays = {} =>
                    /\ ret'.action = "punch_in"
                    /\ Len(ledger') = Len(ledger) + 1
                    /\ ledger'[Len(ledger')].name = u
                    /\ ledger'[Len(ledger')].date = D
                    /\ ledger'[Len(ledger')].punch_out = NULL
                /\ todays # {} =>
                    /\ Len(ledger') = Len(ledger)
                    /\ ret'.action = IF ledger[Max(todays)].punch_out = NULL
                                     THEN "punch_out" ELSE "none"
                /\ \A i \in 1..Len(ledger) :
                    ledger[i].date # D => ledger'[i] = ledger[i]]_vars

\* C37 witness: a user whose record of an earlier day is still open has
\* punched in and out on a later day.
C37_Witness ==
    /\ op.fn = "mark_attendance" /\ op.fault = "none"
    /\ ret.action = "punch_out"
    /\ \E i, j \in 1..Len(ledger) :
        /\ ledger[i].name = op.name /\ ledger[j].name = op.name
        /\ ledger[i].date < ledger[j].date
        /\ ledger[i].punch_out = NULL
        /\ ledger[j].punch_out # NULL

\* the records of u, in the order of their creation
Own(led, u) == SelectSeq(led, LAMBDA row : row.name = u)

\* C38: mark_attendance(u) leaves every record of every other identity as it
\* was, and neither its result nor what it does to u's records depends on
\* the records of others: they are what the same call gives on the ledger
\* of u's records alone, so events of distinct identities, however
\* interleaved, give each identity the results and records of its own
\* events alone.
C38_IdentitiesDoNotInterfere ==
    [][\A u \in Users :
        MarksOk(u) =>
            LET alone == MarkAttendance(Own(ledger, u), u, DateStr(now),
                                        TimeStr(now'), "none")
            IN  /\ \A v \in Users \ {u} : Own(ledger', v) = Own(ledger, v)
                /\ ret' = alone.ret
                /\ Own(ledger', u) = alone.ledger]_vars

\* C38 witness: a user punches out on a day on which another user punched
\* in after him and is still in.
C38_Witness ==
    /\ op.fn = "mark_attendance" /\ op.fault = "none"
    /\ ret.action = "punch_out"
    /\ \E i, j \in 1..Len(ledger) :
        /\ i < j
        /\ ledger[i].name = op.name /\ ledger[j].name # op.name
        /\ ledger[i].date = ledger[j].date
        /\ ledger[i].date = DateStr(now)
        /\ ledger[j].punch_out = NULL

\* C39: the day under which mark_attendance files an event and the time it
\* records come from the same instant: the time written by a call is the
\* time of day of an instant of the call whose calendar day is the date of
\* the record written, across midnight too.
C39_DateAndTimeFromTheSameInstant ==
    [][\A u \in Users :
        (MarksOk(u) /\ ret'.success) =>
            \E t \in now..now', i \in 1..Len(ledger') :
                /\ ledger'[i].name = u
                /\ ledger'[i].date = DateStr(t)
                /\ ret'.timestamp = TimeStr(t)
                /\ IF ret'.action = "punch_in"
                   THEN i = Len(ledger') /\ ledger'[i].punch_in = TimeStr(t)
                   ELSE ledger'[i].punch_out = TimeStr(t)
                        /\ ledger[i].punch_out = NULL]_vars

(***************************************************************************)
(* Properties of the monthly report                                        *)
(***************************************************************************)
\* C32: a call of mark_attendance during which the persistence layer fails
\* (at the lookup, the insert or update, or the commit) returns success
\* false, action none, timestamp None, and leaves the committed ledger as it
\* was: no record created, no punch-out set.
C32_FailedCallIsReportedAndWritesNothing ==
    [][(op'.fn = "mark_attendance" /\ op'.fault # "none") =>
          /\ ret' = [success |-> FALSE, action |-> "none", timestamp |-> NULL]
          /\ ledger' = ledger]_vars

\* C32 witness: the commit failed in a call that found the open record of
\* the day, on a ledger that also holds a completed record; the record is
\* still open.
C32_Witness ==
    /\ op.fn = "mark_attendance"
    /\ op.fault = "commit"
    /\ ret = ErrorResult
    /\ Lookup(ledger, op.name, DateStr(now)).id # 0
    /\ Lookup(ledger, op.name, DateStr(now)).punch_out = NULL
    /\ \E i \in 1..Len(ledger) : ledger[i].punch_out # NULL

\* the records of u dated in the month
RecordsIn(led, u, month) ==
    {i \in 1..Len(led) : led[i].name = u /\ led[i].date \div DaysPerMonth = month}

\* the sum of (punch-out - punch-in), in ticks, over a set of records
RECURSIVE TicksWorked(_, _)
TicksWorked(led, ids) ==
    IF ids = {} THEN 0
    ELSE LET i == CHOOSE x \in ids : TRUE
         IN  (led[i].punch_out - led[i].punch_in) + TicksWorked(led, ids \ {i})

C31_HoursAreTheTimeDifference ==
    op.fn = "hours_worked" =>
        LET d == op.punch_out - op.punch_in
        IN  IF op.punch_out = NULL THEN ret.isna
            ELSE /\ ~ret.isna
                 /\ d % 675 = 0
                 /\ ret.value = (d \div 675) * 2^24

(***************************************************************************)
(* Properties of the matcher                                               *)
(***************************************************************************)
\* every (name, embedding) pair the gallery holds
Stored(kf) ==
    UNION {{[name |-> kf[i].name, enc |-> kf[i].encs[j]] :
                j \in 1..Len(kf[i].encs)} : i \in 1..Len(kf)}

\* the least distance from the probe to a stored embedding
MinDist(kf, probe) ==
    LET ds == {Abs(p.enc - probe) : p \in Stored(kf)}
    IN  CHOOSE d \in ds : \A e \in ds : d <= e

\* recognize_face has just run on a frame with exactly one face and an
\* encoding, against a gallery that is not empty: there is a best candidate
Compared ==
    /\ op.fn = "recognize_face"
    /\ op.frame.faces = 1
    /\ op.frame.enc # NULL
    /\ Stored(known_faces) # {}

\* C8: recognize_face accepts the best candidate if and only if its
\* distance is strictly less than the tolerance: distance < tolerance gives
\* success with the candidate's name; distance >= tolerance (equality
\* included) gives not-recognized with name None and confidence 0.
C8_AcceptsIffStrictlyBelowTolerance ==
    Compared =>
        LET d == MinDist(known_faces, op.frame.enc)
        IN  /\ d < tolerance =>
                /\ ret.success
                /\ \E p \in Stored(known_faces) :
                    p.name = ret.name /\ Abs(p.enc - op.frame.enc) = d
            /\ d >= tolerance =>
                /\ ~ret.success
                /\ ret.name = NONE
                /\ ret.confidence = Zero
                /\ ret.message = "not_recognized"

\* C8 witness: the best candidate is exactly at the tolerance, and rejected.
C8_Witness ==
    /\ Compared
    /\ MinDist(known_faces, op.frame.enc) = tolerance
    /\ ~ret.success

\* C9, first half: the candidate chosen is the owner of an embedding whose
\* distance to the probe is the least over every stored embedding of every
\* identity (the name returned on acceptance, the distance reported on
\* rejection).
C9_CandidateIsGlobalMinimum ==
    Compared =>
        LET d == MinDist(known_faces, op.frame.enc)
        IN  /\ ret.best_distance = d
            /\ ret.success =>
                \E p \in Stored(known_faces) :
                    p.name = ret.name /\ Abs(p.enc - op.frame.enc) = d

\* C9 (as claimed): ... and a probe equal to an embedding enrolled under u,
\* with no closer competitor, is matched to u.
C9_ExactProbeMatchesOwner ==
    /\ C9_CandidateIsGlobalMinimum
    /\ \A u \in Users :
        (/\ Compared
         /\ 0 < tolerance
         /\ \E p \in Stored(known_faces) : p.name = u /\ p.enc = op.frame.enc
         /\ ~\E q \in Stored(known_faces) :
                q.name # u /\ Abs(q.enc - op.frame.enc) < 0)
        => ret.success /\ ret.name = u

\* C9 (amended): ... and a probe equal to an embedding enrolled under u,
\* with no embedding of another identity equally close, is matched to u.
C9_ExactProbeMatchesSoleOwner ==
    /\ C9_CandidateIsGlobalMinimum
    /\ \A u \in Users :
        (/\ Compared
         /\ 0 < tolerance
         /\ \E p \in Stored(known_faces) : p.name = u /\ p.enc = op.frame.enc
         /\ ~\E q \in Stored(known_faces) :
                q.name # u /\ Abs(q.enc - op.frame.enc) <= 0)
        => ret.success /\ ret.name = u

\* C9 witness: the probe equals an embedding of the matched user, who was
\* enrolled after another user whose embedding is farther but within the
\* tolerance.
C9_Witness ==
    /\ Compared
    /\ ret.success
    /\ Len(known_faces) = 2
    /\ known_faces[2].name = ret.name
    /\ \E j \in 1..Len(known_faces[2].encs) :
        known_faces[2].encs[j] = op.frame.enc
    /\ \A j \in 1..Len(known_faces[1].encs) :
        /\ known_faces[1].encs[j] # op.frame.enc
        /\ Abs(known_faces[1].encs[j] - op.frame.enc) < tolerance

\* C10 (as claimed): identification against an empty gallery always returns
\* the explicit no-gallery outcome, never not-recognized, never a match.
C10_EmptyGalleryAlwaysNoGallery ==
    (op.fn = "recognize_face" /\ known_faces = <<>>)
        => /\ ret.message = "no_users"
           /\ ~ret.success

\* C10 (amended): identification against an empty gallery never returns a
\* match nor not-recognized; for a frame with exactly one detected face it
\* returns the no-gallery outcome, and for a frame with no face or several
\* faces the face-count failure, which is tested first.
C10_EmptyGalleryNeverMatches ==
    (op.fn = "recognize_face" /\ known_faces = <<>>)
        => /\ ~ret.success
           /\ ret.name = NONE
           /\ ret.message # "not_recognized"
           /\ op.frame.faces = 1 => ret.message = "no_users"
           /\ op.frame.faces = 0 => ret.message = "no_face"
           /\ op.frame.faces > 1 => ret.message = "multiple_faces"

\* C10 witness: one face, an encoding, nobody enrolled: the no-gallery
\* outcome.
C10_Witness ==
    /\ op.fn = "recognize_face"
    /\ known_faces = <<>>
    /\ op.frame.faces = 1
    /\ op.frame.enc # NULL
    /\ ret.message = "no_users"

\* fractions: equality, and the order against 0 and 1 (denominators > 0)
FracEq(a, b) == a.num * b.den = b.num * a.den
InUnitInterval(a) == a.den > 0 /\ 0 <= a.num /\ a.num <= a.den

\* max(0, 1 - distance/tolerance), as a fraction
ClampedConfidence(d, tol) ==
    [num |-> IF tol - d > 0 THEN tol - d ELSE 0, den |-> tol]

\* C11: for every outcome of recognize_face that has a best candidate the
\* confidence returned equals max(0, 1 - distance/tolerance): it is
\* 1 - distance/tolerance on acceptance and 0 on rejection, and it lies in
\* [0, 1].
C11_ConfidenceIsClampedComplement ==
    Compared =>
        LET d == MinDist(known_faces, op.frame.enc)
        IN  /\ FracEq(ret.confidence, ClampedConfidence(d, tolerance))
            /\ ret.success =>
                    FracEq(ret.confidence, [num |-> tolerance - d, den |-> tolerance])
            /\ ~ret.success => FracEq(ret.confidence, Zero)
            /\ InUnitInterval(ret.confidence)

\* C11 witness: distance 0.3 at tolerance 0.6 is accepted with confidence
\* 0.5.
C11_Witness ==
    /\ Compared
    /\ tolerance = 6
    /\ MinDist(known_faces, op.frame.enc) = 3
    /\ ret.success
    /\ FracEq(ret.confidence, [num |-> 1, den |-> 2])

\* the first identity, in the iteration order of the gallery, that owns an
\* embedding at the least distance from the probe
FirstNearest(kf, probe) ==
    LET nearest == {i \in 1..Len(kf) :
                        \E j \in 1..Len(kf[i].encs) :
                            Abs(kf[i].encs[j] - probe) = MinDist(kf, probe)}
    IN  kf[CHOOSE i \in nearest : \A k \in nearest : i <= k].name

\* C33: identification is deterministic: repeated on the same gallery,
\* tolerance and probe it returns the same outcome; and a match names the
\* identity that comes first in the gallery's iteration order (the
\* earliest-created identity still enrolled) among those owning an embedding
\* at the minimal distance, whichever way a tie between identities lies.
C33_TieGoesToFirstIdentityInGalleryOrder ==
    [][/\ (/\ op.fn = "recognize_face"
           /\ op'.fn = "recognize_face"
           /\ op'.frame = op.frame
           /\ known_faces' = known_faces
           /\ tolerance' = tolerance) => ret' = ret
       /\ (op'.fn = "recognize_face" /\ ret'.success) =>
             ret'.name = FirstNearest(known_faces', op'.frame.enc)]_vars

\* C33 witness: two identities are equidistant from the probe and minimal;
\* the match names bob, created before alice.
C33_Witness ==
    /\ Compared
    /\ ret.success
    /\ Len(known_faces) = 2
    /\ known_faces[1].name = "bob"
    /\ ret.name = "bob"
    /\ \A i \in 1..2 :
        \E j \in 1..Len(known_faces[i].encs) :
            Abs(known_faces[i].encs[j] - op.frame.enc)
                = MinDist(known_faces, op.frame.enc)

\* C40: recognize_face tests its failure conditions in a fixed order, and
\* the first that holds gives the outcome: no face, then several faces,
\* then an empty gallery, then no encoding, then the threshold.  With an
\* empty gallery, a frame without exactly one face gives the face-count
\* failure, and a face that cannot be encoded the empty-gallery outcome.
C40_FailureConditionsInOrder ==
    op.fn = "recognize_face" =>
        ret.message =
            IF op.frame.faces = 0 THEN "no_face"
            ELSE IF op.frame.faces > 1 THEN "multiple_faces"
            ELSE IF Stored(known_faces) = {} THEN "no_users"
            ELSE IF op.frame.enc = NULL THEN "encoding_failed"
            ELSE IF MinDist(known_faces, op.frame.enc) < tolerance
            THEN "recognized"
            ELSE "not_recognized"

\* C40 witness: the gallery is empty and the frame shows several faces; the
\* outcome is that of the face count.
C40_Witness ==
    /\ op.fn = "recognize_face"
    /\ known_faces = <<>>
    /\ op.frame.faces > 1
    /\ ret.message = "multiple_faces"
    /\ ~ret.success

(***************************************************************************)
(* Properties of the gallery                                               *)
(***************************************************************************)
\* the embeddings kept under a name (none if the name is absent)
EncodingsOf(kf, name) == IF Has(kf, name) THEN Get(kf, name) ELSE <<>>

\* every identity other than u is as it was
OthersUnchanged(u) ==
    \A v \in Users \ {u} :
        /\ Has(known_faces', v) <=> Has(known_faces, v)
        /\ EncodingsOf(known_faces', v) = EncodingsOf(known_faces, v)

\* this step is a call fn(u) of the engine
Calls(fn, u) == op'.fn = fn /\ op'.name = u

\* C12: each successful register_face(u) appends exactly one embedding, the
\* frame's, at the end of u's list (a new identity starts with it; equal
\* embeddings are all kept) and leaves every other identity unchanged, so
\* the encoding count of u grows by one per successful enrollment; a
\* successful delete_user(u) removes all of u's embeddings at once: count 0,
\* u absent from get_registered_users, the others unchanged.
C12_EnrollAppendsDeleteRemovesAll ==
    [][\A u \in Users :
        /\ (Calls("register_face", u) /\ ret'.success)
            => /\ Has(known_faces', u)
               /\ Get(known_faces', u) =
                    Append(EncodingsOf(known_faces, u), op'.frame.enc)
               /\ get_user_encoding_count(known_faces', u) =
                    get_user_encoding_count(known_faces, u) + 1
               /\ OthersUnchanged(u)
        /\ (Calls("delete_user", u) /\ ret'.success)
            => /\ get_user_encoding_count(known_faces', u) = 0
               /\ \A i \in 1..Len(get_registered_users(known_faces')) :
                    get_registered_users(known_faces')[i] # u
               /\ OthersUnchanged(u)]_vars

\* C12 witness: a second enrollment of the same embedding under the same
\* name has just succeeded, and the name holds both.
C12_Witness ==
    /\ op.fn = "register_face"
    /\ ret.success
    /\ Has(known_faces, op.name)
    /\ Get(known_faces, op.name) = <<op.frame.enc, op.frame.enc>>
    /\ Len(known_faces) = 2

\* C13: delete_user on a name that is not enrolled returns the not-found
\* failure and changes neither the gallery in memory nor the file.
C13_DeleteOfUnknownChangesNothing ==
    [][\A u \in Users :
        (Calls("delete_user", u) /\ ~Has(known_faces, u))
        => /\ ret' = [success |-> FALSE, message |-> "not_found"]
           /\ known_faces' = known_faces
           /\ disk' = disk]_vars

\* C13 witness: not-found has just been returned while someone else is
\* enrolled and the file holds another gallery than the memory.
C13_Witness ==
    /\ op.fn = "delete_user"
    /\ ret.message = "not_found"
    /\ known_faces # <<>>
    /\ disk.state = "valid"
    /\ disk.known_faces # known_faces

\* C14: in every state reached by register_face and delete_user from an
\* empty gallery, every name present in the gallery has at least one
\* embedding.
C14_NoIdentityWithoutEmbedding ==
    \A i \in 1..Len(known_faces) : Len(known_faces[i].encs) >= 1

\* C14 witness: one of two enrolled users has just been deleted.
C14_Witness ==
    /\ op.fn = "delete_user"
    /\ ret.success
    /\ Len(known_faces) = 1
    /\ ~Has(known_faces, op.name)

\* C15: whenever register_face or delete_user has returned success, the
\* file holds the gallery that is in memory, so that an engine constructed
\* next loads exactly that gallery.
C15_SuccessMeansPersisted ==
    (op.fn \in {"register_face", "delete_user"} /\ ret.success)
        => /\ disk = Pickled(known_faces)
           /\ LoadEncodings(disk) = known_faces

\* C16: if saving the gallery fails during register_face or delete_user,
\* the call does not return success and the gallery in memory is as it was
\* before the call.
C16_FailedSaveIsReportedAndRolledBack ==
    [][(op'.fn \in {"register_face", "delete_user"} /\ op'.fault # "none")
        => /\ ~ret'.success
           /\ known_faces' = known_faces]_vars

\* C17: register_face and recognize_face need exactly one detected face and
\* its embedding: with no face, with more than one face, or when no
\* embedding is produced, the call returns a failure (no-face and
\* multiple-faces for the face counts), never a match nor an enrollment, and
\* the gallery and its file are unchanged.
C17_ExactlyOneFaceRequired ==
    [][(op'.fn \in {"register_face", "recognize_face"} /\ ~Encodable(op'.frame))
        => /\ ~ret'.success
           /\ op'.fn = "recognize_face" => ret'.name = NONE
           /\ op'.frame.faces = 0 => ret'.message = "no_face"
           /\ op'.frame.faces > 1 => ret'.message = "multiple_faces"
           /\ known_faces' = known_faces
           /\ disk' = disk]_vars

\* C17 witness: an enrollment from a frame with several faces has just been
\* refused, with someone already enrolled.
C17_Witness ==
    /\ op.fn = "register_face"
    /\ op.frame.faces > 1
    /\ ~ret.success
    /\ ret.message = "multiple_faces"
    /\ known_faces # <<>>

\* this step is a successful register_face or delete_user of either engine
Mutates ==
    /\ op'.fn \in {"register_face", "delete_user",
                   "peer_register_face", "peer_delete_user"}
    /\ ret'.success

\* C36: with two engines on the same encodings file, no successful
\* register_face or delete_user of one undoes in storage what the other has
\* persisted: a successful operation on u leaves the stored embeddings of
\* every other identity as they were, appends the frame's embedding to the
\* stored list of u (register_face) or removes u from storage (delete_user).
C36_StorageKeepsEveryMutation ==
    [][Mutates =>
        LET before == LoadEncodings(disk)
            after == LoadEncodings(disk')
            u == op'.name
        IN  /\ \A v \in Users \ {u} :
                EncodingsOf(after, v) = EncodingsOf(before, v)
            /\ op'.fn \in {"register_face", "peer_register_face"} =>
                EncodingsOf(after, u)
                    = Append(EncodingsOf(before, u), op'.frame.enc)
            /\ op'.fn \in {"delete_user", "peer_delete_user"} =>
                ~Has(after, u)]_vars

(***************************************************************************)
(* Properties of the liveness detector                                     *)
(***************************************************************************)
\* C18: for every frame fed to check_liveness, frames without eye landmarks
\* included, the returned is_live equals (the frame-variation signal is
\* live) AND (the session's sticky blink flag): a frame without landmarks
\* does not by itself make the verdict false once the flag is set.
C18_VerdictIsVariationAndFlag ==
    op.fn = "check_liveness"
        => (ret.is_live <=> (ret.variation_is_live /\ blink_detected))

\* C19: the blink flag is sticky: once set it stays set after every further
\* frame, with or without landmarks and whatever the later EAR samples,
\* until reset() is called; reset() clears it.
C19_BlinkFlagIsSticky ==
    [][/\ (blink_detected /\ op'.fn # "reset") => blink_detected'
       /\ op'.fn = "reset" => ~blink_detected']_vars

\* C19 witness: the flag is still set after a frame that left a full EAR
\* window without any sample below the threshold.
C19_Witness ==
    /\ op.fn = "check_liveness"
    /\ blink_detected
    /\ Len(ear_history) = ear_history_len
    /\ \A i \in 1..Len(ear_history) : ear_history[i] >= blink_threshold
    /\ ear_history[Len(ear_history)] = blink_threshold

\* C20: the blink flag goes from unset to set on a frame exactly when, after
\* that frame's EAR sample was pushed, the EAR window is full (10 samples),
\* some sample of the window is strictly below blink_threshold and the most
\* recent sample is strictly above it; in no other circumstance is it set.
C20_FlagSetExactlyOnBlinkPattern ==
    [][~blink_detected =>
        (blink_detected' <=>
            /\ op'.fn = "check_liveness"
            /\ op'.frame.ear # NULL
            /\ ear_history' = Push(ear_history, op'.frame.ear, 10)
            /\ Len(ear_history') = 10
            /\ \E i \in 1..10 : ear_history'[i] < blink_threshold
            /\ ear_history'[10] > blink_threshold)]_vars

\* C20 witness: the flag is set on a window whose oldest sample is the only
\* one below the threshold, the samples between being exactly at it, and
\* whose newest sample is above.
C20_Witness ==
    /\ op.fn = "check_liveness"
    /\ blink_detected
    /\ Len(ear_history) = 10
    /\ ear_history[1] < blink_threshold
    /\ \A i \in 2..9 : ear_history[i] = blink_threshold
    /\ ear_history[10] > blink_threshold

C22_StillSceneIsNeverLive ==
    op.fn = "check_liveness" => ~ret.is_live

\* C22 witness: on the tenth identical frame or later the blink flag is set
\* and returned, the variation score is 0, and the verdict is not live.
C22_Witness ==
    /\ op.fn = "check_liveness"
    /\ Len(ear_history) = ear_history_len
    /\ ret.has_blink
    /\ ret.variation_score = 0
    /\ ~ret.variation_is_live
    /\ ~ret.is_live

\* C23: with fewer than 2 frames buffered since the reset the variation
\* signal defaults to live, yet the verdict is not live, the blink flag
\* being required; and no frame among the first 9 fed after a reset gets
\* is_live = true: each frame adds at most one EAR sample, so that after at
\* most 9 frames the EAR window holds fewer than 10 samples, and with fewer
\* than 10 samples the flag is unset and the verdict not live.
C23_NoLiveVerdictBeforeTenSamples ==
    /\ (op.fn = "check_liveness" /\ Len(frame_history) < 2)
        => ret.variation_is_live /\ ~ret.is_live
    /\ Len(ear_history) < ear_history_len
        => /\ ~blink_detected
           /\ op.fn = "check_liveness" => ~ret.is_live

\* C23 witness: the ninth EAR sample since the reset arrives on a moving
\* scene, after a dip and a rise: variation is live, the verdict is not.
C23_Witness ==
    /\ op.fn = "check_liveness"
    /\ Len(ear_history) = ear_history_len - 1
    /\ ear_history[1] < blink_threshold
    /\ ear_history[Len(ear_history)] > blink_threshold
    /\ ret.variation_is_live
    /\ ret.variation_score > frame_variation_threshold
    /\ ~ret.is_live

\* the last n entries of a list (all of it if it is shorter)
LastN(history, n) ==
    SubSeq(history, IF Len(history) > n THEN Len(history) - n + 1 ELSE 1,
           Len(history))

\* C24: in every reachable state the frame history holds at most 5 frames
\* and the EAR history at most 10 samples, and each window holds exactly
\* the most recent entries in arrival order (the oldest is evicted first).
C24_WindowsAreBoundedAndMostRecent ==
    [][/\ Len(frame_history') <= 5
       /\ Len(ear_history') <= 10
       /\ op'.fn = "check_liveness"
            => /\ frame_history' =
                    LastN(Append(frame_history, op'.frame.gray), 5)
               /\ ear_history' =
                    IF op'.frame.ear = NULL THEN ear_history
                    ELSE LastN(Append(ear_history, op'.frame.ear), 10)]_vars

\* C24 witness: both windows are full and have evicted, the newest entries
\* differing from the ones before them.
C24_Witness ==
    /\ op.fn = "check_liveness"
    /\ frame_history = <<0, 0, 0, 0, 501>>
    /\ Len(ear_history) = 10
    /\ ear_history[1] = 30
    /\ \A i \in 2..9 : ear_history[i] = 20
    /\ ear_history[10] = 30

\* C29: reset() returns the detector to the constructed state from any
\* state: the frame window and the EAR window are empty and the blink flag
\* is unset, which with the unchanged thresholds is all that later calls
\* depend on; a reset of a reset detector changes nothing.
C29_ResetRestoresConstructedState ==
    [][op'.fn = "reset"
        => /\ frame_history' = <<>>
           /\ ear_history' = <<>>
           /\ blink_detected' = FALSE]_vars

\* C29 witness: a reset has just cleared a detector whose last frame had
\* returned the blink flag set.
C29_Witness ==
    /\ op.fn = "reset"
    /\ "has_blink" \in DOMAIN ret
    /\ ret.has_blink
    /\ ~blink_detected
    /\ ear_history = <<>>
    /\ frame_history = <<>>

(***************************************************************************)
(* Properties of the liveness attempt (Register page)                      *)
(***************************************************************************)
\* this step is an iteration of the loop on a captured frame
Consumes == op'.fn = "loop_frame" /\ op'.fault = "none"
\* this step ends an attempt
Ends == run.at = "loop" /\ run'.at = "idle"
\* this step begins one
Begins == run.at = "idle" /\ run'.at = "loop"

\* C25: a liveness attempt becomes LIVE on the first frame whose verdict is
\* true: the attempt ends on that frame, which is the frame captured for
\* enrollment; a frame with a false verdict within the budget leaves the
\* attempt going; an ended attempt consumes no further frame; and no
\* attempt ends LIVE without a frame with a true verdict.
C25_LiveOnFirstTrueVerdict ==
    [][/\ (Consumes /\ ret'.is_live)
            => /\ Ends
               /\ run'.message = "liveness_ok"
               /\ session_state'.captured_frame = op'.frame
               /\ session_state'.frame_captured
               /\ ~session_state'.liveness_check_started
       /\ (Consumes /\ ~ret'.is_live /\ run.i + 1 < 30)
            => run'.at = "loop" /\ run'.i = run.i + 1
       /\ Consumes => run.at = "loop"
       /\ (Ends /\ run'.message = "liveness_ok")
            => Consumes /\ ret'.is_live]_vars

\* C25 witness: an attempt has just ended LIVE on its eleventh frame or a
\* later one, and that frame is the captured one.
C25_Witness ==
    /\ op.fn = "loop_frame"
    /\ run.at = "idle"
    /\ run.message = "liveness_ok"
    /\ run.i > 10
    /\ ret.is_live
    /\ session_state.captured_frame = op.frame
    /\ session_state.frame_captured

\* C26: every liveness attempt terminates: it ends in exactly one of LIVE,
\* TIMED_OUT or FAILED, having consumed at most 30 frames, and it ends
\* TIMED_OUT exactly when 30 frames were consumed and none had a true
\* verdict (a frame with a true verdict ends the attempt at once).
C26_AttemptTerminatesWithinBudget ==
    /\ [][/\ run'.i <= 30
          /\ run'.at = "loop" => run'.i < 30
          /\ Ends
                => /\ run'.message
                        \in {"liveness_ok", "liveness_failed", "capture_failed"}
                   /\ run'.message = "liveness_failed"
                        <=> (Consumes /\ ~ret'.is_live /\ run'.i = 30)
                   /\ run'.message = "liveness_ok"
                        <=> (Consumes /\ ret'.is_live)
                   /\ run'.message = "capture_failed" <=> ~Consumes]_vars
    /\ (run.at = "loop") ~> (run.at = "idle")

\* C26 witness: an attempt has just timed out on its thirtieth frame, with
\* the blink flag set.
C26_Witness ==
    /\ op.fn = "loop_frame"
    /\ run.at = "idle"
    /\ run.message = "liveness_failed"
    /\ run.i = 30
    /\ blink_detected
    /\ ~session_state.liveness_check_started

\* C27: a frame-capture failure during a liveness attempt ends the attempt
\* as FAILED: it is no longer marked as in progress and it consumes no
\* further frame, and the next attempt begins only through an explicit
\* start, which resets the detector.
C27_CaptureFailureEndsTheAttempt ==
    [][/\ (op'.fn = "loop_frame" /\ op'.fault = "capture")
            => /\ Ends
               /\ ~session_state'.liveness_check_started
       /\ (Begins /\ run.message = "capture_failed")
            => /\ op'.fn = "start_liveness_check"
               /\ frame_history' = <<>>
               /\ ear_history' = <<>>
               /\ ~blink_detected']_vars

\* C28: every liveness attempt starts from fresh state: when an attempt
\* begins the frame window and the EAR window are empty and the blink flag
\* is unset, however the attempt before it ended.
C28_AttemptStartsFresh ==
    [][Begins
        => /\ frame_history' = <<>>
           /\ ear_history' = <<>>
           /\ ~blink_detected']_vars

\* a step in which the page calls engine.register_face
Registers ==
    /\ op'.fn \in {"press_register", "register_after_loop"}
    /\ op'.invoked

\* C34: in the Register flow register_face is invoked only on the frame
\* captured at a LIVE verdict: the frame passed is the captured frame of the
\* session, which only a LIVE verdict of the loop sets (to the frame of the
\* verdict) and only a successful enrollment clears; a cleared frame is not
\* passed again before a new LIVE verdict.
C34_RegisterOnlyOnLiveFrame ==
    [][/\ Registers =>
            /\ op'.frame = session_state.captured_frame
            /\ op'.frame # NoImage
            /\ session_state.frame_captured
       /\ session_state'.captured_frame # session_state.captured_frame =>
            \/ /\ Consumes
               /\ ret'.is_live
               /\ session_state'.captured_frame = op'.frame
               /\ session_state'.frame_captured
            \/ /\ Registers
               /\ ret'.success
               /\ session_state'.captured_frame = NoImage
       /\ (Registers /\ ret'.success) =>
            /\ session_state'.captured_frame = NoImage
            /\ ~session_state'.frame_captured]_vars

(***************************************************************************)
(* Properties of the Mark Attendance page                                  *)
(***************************************************************************)
\* C1: in the Mark Attendance flow the match is gated behind liveness: a
\* run of the page hands a frame to recognize_face, and the match to
\* mark_attendance, only after a check_liveness of that run has returned
\* is_live; a run without a LIVE verdict creates or updates no attendance
\* record.  Stated for the ledger transition, which the claim implies: every
\* mark_attendance call of a run follows a successful recognize_face, which
\* follows a LIVE verdict.
C1_MatchGatedByLiveness ==
    \A i \in 1..Len(calls) :
        calls[i].fn = "mark_attendance"
            => \E j \in 1..(i - 1), k \in 1..(i - 1) :
                /\ k < j
                /\ calls[k].fn = "check_liveness" /\ calls[k].ok
                /\ calls[j].fn = "recognize_face" /\ calls[j].ok

\* the calls of mark_attendance a run of the page made
MarkCalls(cs) == {i \in 1..Len(cs) : cs[i].fn = "mark_attendance"}

====
